---------------------------- MODULE Spec2Model ----------------------------
(***************************************************************************)
(* rpi-camera-playback.c: the orchestrating thread (main), the OpenMAX IL  *)
(* runtime it drives (three components, their ports, their command queues  *)
(* and the events they emit), the event callback (event_handler) and the   *)
(* signal handler.                                                         *)
(*                                                                         *)
(* The runtime is the program's environment.  It is modelled by what the   *)
(* program observes of it: a call returns OMX_ErrorNone or an error, a     *)
(* command is carried out some time after OMX_SendCommand returned, and    *)
(* its completion is reported by one OMX_EventCmdComplete callback.        *)
(* OMX_GetState is assumed to answer (its result is not checked by the     *)
(* program, lines 257-266).                                                *)
(***************************************************************************)
EXTENDS Integers, Sequences, FiniteSets, TLC

VARIABLES
    pc,            \* index of main's current instruction in MainProgram
    sub,           \* position inside the current instruction
    exitCode,      \* -1 running, 0 return 0, 1 exit(1), 2 killed by a signal
    cause,         \* why the process ended: none, rejected, error_event, signal
    i,             \* init_component_handle: index into types[]
    nPortIndex,    \* init_component_handle: port loop variable
    nPortLimit,    \* init_component_handle: nStartPortNumber + nPorts
    quit,          \* block_until_flushed: the local quit
    handle,        \* runtime: component -> none | open | freed
    compState,     \* runtime: component -> OMX state
    portEnabled,   \* runtime: port -> bEnabled
    pending,       \* runtime: component -> queue of accepted commands
    callback,      \* runtime: the camera-device-number callback: none |
                   \* requested (line 431) | armed (line 439) | fired
    tunnels,       \* runtime: the tunnels set up, as <<out port, in port>>
    buffer,        \* ctx.camera_ppBuffer_in: none | allocated | freed
    capturing,     \* runtime: OMX_IndexConfigPortCapturing of port 71
    events,        \* callbacks the runtime has yet to make, in order
    hpc,           \* event_handler: idle | locked
    handler_lock,  \* ctx.handler_lock: the semaphore's count, -1 before create
    camera_ready,  \* ctx.camera_ready
    flushed,       \* ctx.flushed
    want_quit,     \* the global want_quit
    disp,          \* signal -> default | handler
    delivered,     \* ports whose flush completion event_handler has recorded
    consumed,      \* how many times block_until_flushed has reset flushed
    r,             \* the OMX_ERRORTYPE the last runtime call of main returned
    screen_width,  \* main's screen_width (line 410)
    screen_height, \* main's screen_height (line 410)
    camera_portdef, \* main's camera_portdef (line 443)
    portdef,       \* runtime: the port definitions of ports 70 and 71
    fpc,           \* position in lines 410-467, off when they are not followed
    log            \* the calls main has made and the waits it has left

vars == <<pc, sub, exitCode, cause, i, nPortIndex, nPortLimit, quit, handle,
          compState, portEnabled, pending, callback, tunnels, buffer,
          capturing, events, hpc, handler_lock, camera_ready, flushed,
          want_quit, disp, delivered, consumed, r, log,
          screen_width, screen_height, camera_portdef, portdef, fpc>>

\* The variables of the port format code, lines 410-467.
format == <<screen_width, screen_height, camera_portdef, portdef, fpc>>

-----------------------------------------------------------------------------
(* The runtime's components and ports, as the program names them.          *)

Components == {"camera", "render", "null_sink"}

\* The five ports the program uses (lines 417-422, 570, 593).
Ports == {73, 70, 71, 90, 240}

Owner(p) ==
    CASE p \in {70, 71, 73} -> "camera"
      [] p = 90             -> "render"
      [] p = 240            -> "null_sink"

PortsOf(c) == {p \in Ports : Owner(p) = c}

\* types[] of init_component_handle, in its order.
types == <<"OMX_IndexParamAudioInit", "OMX_IndexParamVideoInit",
           "OMX_IndexParamImageInit", "OMX_IndexParamOtherInit">>

\* What OMX_GetParameter(types[i]) reports for a component: the range
\* <<nStartPortNumber, nPorts>> of its ports of that category.
PortRange(c, t) ==
    CASE c = "camera"    /\ t = "OMX_IndexParamVideoInit" -> <<70, 2>>
      [] c = "camera"    /\ t = "OMX_IndexParamOtherInit" -> <<73, 1>>
      [] c = "render"    /\ t = "OMX_IndexParamVideoInit" -> <<90, 1>>
      [] c = "null_sink" /\ t = "OMX_IndexParamVideoInit" -> <<240, 1>>
      [] OTHER -> <<0, 0>>

Signals == {"SIGINT", "SIGTERM", "SIGQUIT"}

-----------------------------------------------------------------------------
(* main as a sequence of instructions.  k is the kind of instruction, op   *)
(* the call or command, c the component, p the port, s a state or index.   *)

Ins(k, op, c, p, s) ==
    [k |-> k, op |-> op, c |-> c, p |-> p, s |-> s, b |-> FALSE, p2 |-> 0]

Call(op, c, p, s)  == Ins("call", op, c, p, s)
Query(c, p)        == Ins("query", "OMX_GetParameter", c, p, "OMX_IndexParamPortDefinition")
SendCommand(c, cmd, p, s) == Ins("call", cmd, c, p, s)
StateSet(c, s)     == SendCommand(c, "OMX_CommandStateSet", 0, s)
PortEnable(c, p)   == SendCommand(c, "OMX_CommandPortEnable", p, "")
PortDisable(c, p)  == SendCommand(c, "OMX_CommandPortDisable", p, "")
Flush(c, p)        == SendCommand(c, "OMX_CommandFlush", p, "")
BlockState(c, s)   == Ins("block_until_state_changed", "", c, 0, s)
BlockPort(c, p, b) ==
    [Ins("block_until_port_changed", "", c, p, "") EXCEPT !.b = b]
SetupTunnel(c, p, p2) == [Call("OMX_SetupTunnel", c, p, "") EXCEPT !.p2 = p2]
Capture(c, p, b) ==
    [Call("OMX_SetParameter", c, p, "OMX_IndexConfigPortCapturing") EXCEPT !.b = b]
BlockFlushed(p)    == Ins("block_until_flushed", "", "", p, "")
SetConfig(c, p, s) == Call("OMX_SetConfig", c, p, s)
SetParameter(c, p, s) == Call("OMX_SetParameter", c, p, s)

\* lines 386-404
ProgInit == <<
    Call("OMX_Init", "", 0, ""),                                   \* 390
    Call("vcos_semaphore_create", "", 0, ""),                      \* 397
    Ins("memset", "", "", 0, "") >>                                \* 403

\* lines 406-408
ProgHandles == <<
    Ins("init_component_handle", "", "camera", 0, ""),
    Ins("init_component_handle", "", "render", 0, ""),
    Ins("init_component_handle", "", "null_sink", 0, "") >>

\* lines 410-561
ProgCamera == <<
    Call("graphics_get_display_size", "", 0, ""),                  \* 411
    Query("camera", 73), Query("camera", 70), Query("camera", 71), \* 418-422
    SetConfig("camera", 0, "OMX_IndexConfigRequestCallback"),      \* 431
    SetParameter("camera", 0, "OMX_IndexParamCameraDeviceNumber"), \* 439
    Query("camera", 70),                                           \* 446
    SetParameter("camera", 70, "OMX_IndexParamPortDefinition"),    \* 453
    Query("camera", 70),                                           \* 461
    SetParameter("camera", 71, "OMX_IndexParamPortDefinition"),    \* 465
    SetConfig("camera", 70, "OMX_IndexConfigVideoFramerate"),      \* 473
    SetConfig("camera", 71, "OMX_IndexConfigVideoFramerate"),      \* 477
    SetConfig("camera", 0, "OMX_IndexConfigCommonSharpness"),      \* 485
    SetConfig("camera", 0, "OMX_IndexConfigCommonContrast"),       \* 493
    SetConfig("camera", 0, "OMX_IndexConfigCommonSaturation"),     \* 501
    SetConfig("camera", 0, "OMX_IndexConfigCommonBrightness"),     \* 509
    SetConfig("camera", 0, "OMX_IndexConfigCommonExposureValue"),  \* 519
    SetConfig("camera", 0, "OMX_IndexConfigCommonFrameStabilisation"), \* 527
    SetConfig("camera", 0, "OMX_IndexConfigCommonWhiteBalance"),   \* 535
    SetConfig("camera", 0, "OMX_IndexConfigCommonImageFilter"),    \* 543
    SetConfig("camera", 71, "OMX_IndexConfigCommonMirror") >>      \* 559

\* lines 563-566
ProgCameraReady == << Ins("wait_camera_ready", "", "", 0, "") >>

\* lines 568-594
ProgRender == <<
    Query("render", 90),                                           \* 571
    SetConfig("render", 90, "OMX_IndexConfigDisplayRegion"),       \* 587
    Query("null_sink", 240) >>                                     \* 594

\* lines 598-608
ProgTunnels == <<
    SetupTunnel("camera", 70, 240),                                \* 600
    SetupTunnel("camera", 71, 90) >>                               \* 606

\* Lines 610-625 without the last block_until_state_changed (line 625).
ProgIdleUnconfirmed == <<
    StateSet("camera", "Idle"),    BlockState("camera", "Idle"),
    StateSet("render", "Idle"),    BlockState("render", "Idle"),
    StateSet("null_sink", "Idle") >>

\* lines 610-625
ProgIdle == <<
    StateSet("camera", "Idle"),    BlockState("camera", "Idle"),
    StateSet("render", "Idle"),    BlockState("render", "Idle"),
    StateSet("null_sink", "Idle"), BlockState("null_sink", "Idle") >>

\* Lines 627-648 without the block_until_port_changed of port 73 (line 632).
ProgEnableUnconfirmed == <<
    PortEnable("camera", 73),
    PortEnable("camera", 70),     BlockPort("camera", 70, TRUE),
    PortEnable("camera", 71),     BlockPort("camera", 71, TRUE),
    PortEnable("render", 90),     BlockPort("render", 90, TRUE),
    PortEnable("null_sink", 240), BlockPort("null_sink", 240, TRUE) >>

\* lines 627-648
ProgEnable == <<
    PortEnable("camera", 73),     BlockPort("camera", 73, TRUE),
    PortEnable("camera", 70),     BlockPort("camera", 70, TRUE),
    PortEnable("camera", 71),     BlockPort("camera", 71, TRUE),
    PortEnable("render", 90),     BlockPort("render", 90, TRUE),
    PortEnable("null_sink", 240), BlockPort("null_sink", 240, TRUE) >>

\* Lines 650-660 without the OMX_AllocateBuffer call (line 658).
ProgAllocateNothing == << Query("camera", 73) >>

\* lines 650-660
ProgAllocate == <<
    Query("camera", 73),                                           \* 655
    Call("OMX_AllocateBuffer", "camera", 73, "") >>                \* 658

\* lines 662-678
ProgExecuting == <<
    StateSet("camera", "Executing"),    BlockState("camera", "Executing"),
    StateSet("render", "Executing"),    BlockState("render", "Executing"),
    StateSet("null_sink", "Executing"), BlockState("null_sink", "Executing") >>

\* Lines 680-699 with the format of port 71 set again once capture is on.
ProgCaptureReformats == <<
    Capture("camera", 71, TRUE),
    Query("camera", 73), Query("camera", 70), Query("camera", 71),
    SetParameter("camera", 71, "OMX_IndexParamPortDefinition"),
    Query("render", 90), Query("null_sink", 240) >>

\* lines 680-699
ProgCapture == <<
    Capture("camera", 71, TRUE),                                   \* 686
    Query("camera", 73), Query("camera", 70), Query("camera", 71), \* 691-695
    Query("render", 90), Query("null_sink", 240) >>                \* 697-699

\* Lines 703-715 with signal_handler left installed (lines 713-715 setting
\* it again instead of SIG_DFL).
ProgSteadyHandlersKept == <<
    Ins("signal", "handler", "", 0, "SIGINT"),
    Ins("signal", "handler", "", 0, "SIGTERM"),
    Ins("signal", "handler", "", 0, "SIGQUIT"),
    Ins("loop", "", "", 0, ""),
    Ins("signal", "handler", "", 0, "SIGINT"),
    Ins("signal", "handler", "", 0, "SIGTERM"),
    Ins("signal", "handler", "", 0, "SIGQUIT") >>

\* lines 703-715
ProgSteady == <<
    Ins("signal", "handler", "", 0, "SIGINT"),                     \* 703
    Ins("signal", "handler", "", 0, "SIGTERM"),                    \* 704
    Ins("signal", "handler", "", 0, "SIGQUIT"),                    \* 705
    Ins("loop", "", "", 0, ""),                                    \* 706-709
    Ins("signal", "default", "", 0, "SIGINT"),                     \* 713
    Ins("signal", "default", "", 0, "SIGTERM"),                    \* 714
    Ins("signal", "default", "", 0, "SIGQUIT") >>                  \* 715

\* lines 717-723
ProgCaptureOff == << Capture("camera", 71, FALSE) >>              \* 721

\* lines 725-745
ProgFlush == <<
    Flush("camera", 73),     BlockFlushed(73),
    Flush("camera", 70),     BlockFlushed(70),
    Flush("camera", 71),     BlockFlushed(71),
    Flush("render", 90),     BlockFlushed(90),
    Flush("null_sink", 240), BlockFlushed(240) >>

\* lines 747-766: the disable of port 90 (line 760) has no
\* block_until_port_changed after it.
ProgDisable == <<
    PortDisable("camera", 73),     BlockPort("camera", 73, FALSE),
    PortDisable("camera", 70),     BlockPort("camera", 70, FALSE),
    PortDisable("camera", 71),     BlockPort("camera", 71, FALSE),
    PortDisable("render", 90),
    PortDisable("null_sink", 240), BlockPort("null_sink", 240, FALSE) >>

\* Lines 768-771 without the OMX_FreeBuffer call (line 769).
ProgFreeBufferNothing == << >>

\* lines 768-771
ProgFreeBuffer == << Call("OMX_FreeBuffer", "camera", 73, "") >>

\* Lines 773-797 without the last block_until_state_changed (line 797).
ProgUnloadUnconfirmed == <<
    StateSet("camera", "Idle"),      BlockState("camera", "Idle"),
    StateSet("render", "Idle"),      BlockState("render", "Idle"),
    StateSet("null_sink", "Idle"),   BlockState("null_sink", "Idle"),
    StateSet("camera", "Loaded"),    BlockState("camera", "Loaded"),
    StateSet("render", "Loaded"),    BlockState("render", "Loaded"),
    StateSet("null_sink", "Loaded") >>

\* lines 773-797
ProgUnload == <<
    StateSet("camera", "Idle"),      BlockState("camera", "Idle"),
    StateSet("render", "Idle"),      BlockState("render", "Idle"),
    StateSet("null_sink", "Idle"),   BlockState("null_sink", "Idle"),
    StateSet("camera", "Loaded"),    BlockState("camera", "Loaded"),
    StateSet("render", "Loaded"),    BlockState("render", "Loaded"),
    StateSet("null_sink", "Loaded"), BlockState("null_sink", "Loaded") >>

\* lines 799-818
ProgExit == <<
    Call("OMX_FreeHandle", "camera", 0, ""),                       \* 800
    Call("OMX_FreeHandle", "render", 0, ""),                       \* 803
    Call("OMX_FreeHandle", "null_sink", 0, ""),                    \* 806
    Ins("vcos_semaphore_delete", "", "", 0, ""),                   \* 811
    Call("OMX_Deinit", "", 0, ""),                                 \* 812
    Ins("return", "", "", 0, "") >>                                \* 818

\* main with the tunnels set up after the components were moved to Idle.
MainProgramTunnelsLate ==
    ProgInit \o ProgHandles \o ProgCamera \o ProgCameraReady \o ProgRender
    \o ProgIdle \o ProgTunnels \o ProgEnable \o ProgAllocate \o ProgExecuting
    \o ProgCapture \o ProgSteady \o ProgCaptureOff \o ProgFlush \o ProgDisable
    \o ProgFreeBuffer \o ProgUnload \o ProgExit

\* main with signal_handler installed before capture is switched on.
MainProgramSignalsEarly ==
    ProgInit \o ProgHandles \o ProgCamera \o ProgCameraReady \o ProgRender
    \o ProgTunnels \o ProgIdle \o ProgEnable \o ProgAllocate \o ProgExecuting
    \o SubSeq(ProgSteady, 1, 3) \o ProgCapture \o SubSeq(ProgSteady, 4, 7)
    \o ProgCaptureOff \o ProgFlush \o ProgDisable
    \o ProgFreeBuffer \o ProgUnload \o ProgExit

MainProgram ==
    ProgInit \o ProgHandles \o ProgCamera \o ProgCameraReady \o ProgRender
    \o ProgTunnels \o ProgIdle \o ProgEnable \o ProgAllocate \o ProgExecuting
    \o ProgCapture \o ProgSteady \o ProgCaptureOff \o ProgFlush \o ProgDisable
    \o ProgFreeBuffer \o ProgUnload \o ProgExit

-----------------------------------------------------------------------------
(* State shared by the actions.                                            *)

Running == exitCode = -1

Cur == MainProgram[pc]

AtMain(k, at) == Running /\ pc <= Len(MainProgram) /\ Cur.k = k /\ sub = at

\* OMX_SendCommand's commands.
Commands == {"OMX_CommandStateSet", "OMX_CommandPortEnable",
             "OMX_CommandPortDisable", "OMX_CommandFlush"}

Cmd(cmd, p, s) == [cmd |-> cmd, p |-> p, s |-> s]

NoStates == [c \in Components |-> ""]

NoPorts == [p \in Ports |-> FALSE]

\* One entry of the call log: a call main made, or a wait it left.
Note(op, c, p, s, b) ==
    [op |-> op, c |-> c, p |-> p, s |-> s, b |-> b,
     st |-> NoStates, en |-> NoPorts, ready |-> 0]

\* The entry of a call of main that acts on the pipeline (a command, a
\* tunnel, the capture switch, the buffer, a handle), with what the runtime
\* reported
\* then: the components' states, the ports' flags, and camera_ready (not
\* recorded for a port-definition set, which does not depend on it).
Snap(op, c, p, s, b) ==
    [op |-> op, c |-> c, p |-> p, s |-> s, b |-> b,
     st |-> compState, en |-> portEnabled,
     ready |-> IF s = "OMX_IndexParamPortDefinition" THEN 0 ELSE camera_ready]

\* The calls of main logged with the runtime's state.
Acting(ins) ==
    \/ ins.op \in Commands
    \/ ins.op \in {"OMX_SetupTunnel", "OMX_AllocateBuffer", "OMX_FreeBuffer",
                  "OMX_FreeHandle"}
    \/ ins.s = "OMX_IndexConfigPortCapturing"
    \/ ins.op = "OMX_SetParameter" /\ ins.s = "OMX_IndexParamPortDefinition"

Event(e, c, d1, d2, p, s) ==
    [e |-> e, c |-> c, d1 |-> d1, d2 |-> d2, p |-> p, s |-> s]

Advance == pc' = pc + 1 /\ sub' = "start"

\* The process ends other than by main's return: its threads, its memory
\* and its connection to the runtime (handles, queued commands, callbacks
\* not yet made) are gone.  What stays is where main stood and the record
\* of what had happened: the log and the flush confirmations counted.
ProcessEnds(code, why) ==
    /\ exitCode' = code
    /\ cause' = why
    /\ i' = 0 /\ nPortIndex' = 0 /\ nPortLimit' = 0 /\ quit' = 0
    /\ handle' = [c \in Components |-> "none"]
    /\ compState' = [c \in Components |-> "Loaded"]
    /\ portEnabled' = [p \in Ports |-> FALSE]
    /\ pending' = [c \in Components |-> <<>>]
    /\ callback' = "none"
    /\ tunnels' = {}
    /\ buffer' = "none"
    /\ capturing' = FALSE
    /\ events' = <<>>
    /\ hpc' = "idle"
    /\ handler_lock' = -1
    /\ camera_ready' = 0
    /\ flushed' = 0
    /\ want_quit' = 0
    /\ disp' = [s \in Signals |-> "default"]
    /\ UNCHANGED <<pc, sub, log, delivered, consumed, format>>

\* exit(1) of die(), lines 110-119.
die(why) == ProcessEnds(1, why) /\ UNCHANGED r

\* OMX_INIT_STRUCTURE(camera_portdef) and the assignment of nPortIndex,
\* lines 444-445 and 459-460: every other field is zero.
InitStructure(index) ==
    [nPortIndex |-> index, nFrameWidth |-> 0, nFrameHeight |-> 0,
     nStride |-> 0, nSliceHeight |-> 0, xFramerate |-> 0]

\* The state after construction of everything but the port format code.
MainInit ==
    /\ pc = 1
    /\ sub = "start"
    /\ exitCode = -1
    /\ cause = "none"
    /\ i = 0
    /\ nPortIndex = 0
    /\ nPortLimit = 0
    /\ quit = 0
    /\ handle = [c \in Components |-> "none"]
    /\ compState = [c \in Components |-> "Loaded"]
    /\ portEnabled \in [Ports -> BOOLEAN]
    /\ pending = [c \in Components |-> <<>>]
    /\ callback = "none"
    /\ tunnels = {}
    /\ buffer = "none"
    /\ capturing = FALSE
    /\ events = <<>>
    /\ hpc = "idle"
    /\ handler_lock = -1
    /\ camera_ready = 0
    /\ flushed = 0
    /\ want_quit = 0
    /\ disp = [s \in Signals |-> "default"]
    /\ delivered = {}
    /\ consumed = 0
    /\ r = "OMX_ErrorNone"
    /\ log = <<>>

\* The port format code is followed in a specification of its own (below):
\* here its variables stay as they are declared.
Init ==
    /\ MainInit
    /\ screen_width = 0
    /\ screen_height = 0
    /\ camera_portdef = InitStructure(0)
    /\ portdef = [p \in {70, 71} |-> InitStructure(p)]
    /\ fpc = "off"

-----------------------------------------------------------------------------
(* main: the calls whose error is fatal.                                   *)

\* OMX_SendCommand queues the command on the component; the set calls take
\* effect at once.
CallPending(ins) ==
    IF ins.op \in Commands
    THEN [pending EXCEPT ![ins.c] = Append(@, Cmd(ins.op, ins.p, ins.s))]
    ELSE IF ins.op = "OMX_FreeHandle"
    THEN [pending EXCEPT ![ins.c] = <<>>]
    ELSE pending

\* The callback requested for OMX_IndexParamCameraDeviceNumber (line 431)
\* is due once that parameter is set (line 439).
CallCallback(ins) ==
    CASE ins.op = "OMX_SetConfig" /\ ins.s = "OMX_IndexConfigRequestCallback"
           /\ callback = "none" -> "requested"
      [] ins.op = "OMX_SetParameter" /\ ins.s = "OMX_IndexParamCameraDeviceNumber"
           /\ callback = "requested" -> "armed"
      [] OTHER -> callback

CallStep ==
    /\ AtMain("call", "start")
    /\ r' = "OMX_ErrorNone"
    /\ pending' = CallPending(Cur)
    /\ callback' = CallCallback(Cur)
    /\ handler_lock' = IF Cur.op = "vcos_semaphore_create" THEN 1 ELSE handler_lock
    /\ tunnels' = IF Cur.op = "OMX_SetupTunnel"
                  THEN tunnels \cup {<<Cur.p, Cur.p2>>} ELSE tunnels
    /\ buffer' = CASE Cur.op = "OMX_AllocateBuffer" -> "allocated"
                   [] Cur.op = "OMX_FreeBuffer"     -> "freed"
                   [] OTHER -> buffer
    /\ capturing' = IF Cur.s = "OMX_IndexConfigPortCapturing" THEN Cur.b ELSE capturing
    /\ handle' = IF Cur.op = "OMX_FreeHandle"
                 THEN [handle EXCEPT ![Cur.c] = "freed"] ELSE handle
    /\ log' = Append(log, IF Acting(Cur)
                           THEN Snap(Cur.op, Cur.c, Cur.p, Cur.s, Cur.b)
                           ELSE Note(Cur.op, Cur.c, Cur.p, Cur.s, Cur.b))
    /\ Advance
    /\ UNCHANGED <<exitCode, cause, i, nPortIndex, nPortLimit, quit, compState,
                   portEnabled, events, hpc, camera_ready, flushed, want_quit,
                   disp, delivered,
                   consumed, format>>

\* dump_port and the other OMX_GetParameter calls of main: read only.
QueryStep ==
    /\ AtMain("query", "start")
    /\ r' = "OMX_ErrorNone"
    /\ Advance
    /\ UNCHANGED <<exitCode, cause, i, nPortIndex, nPortLimit, quit, handle,
                   compState, portEnabled, pending, callback, tunnels,
                   buffer, capturing, events, hpc, handler_lock, camera_ready,
                   flushed, want_quit, disp, delivered,
                   consumed, log, format>>

\* memset(&ctx, 0, sizeof(callbacks)), line 403: clears the first fields of
\* ctx (camera, camera_ppBuffer_in, camera_ready), not the semaphore.
Memset ==
    /\ AtMain("memset", "start")
    /\ camera_ready' = 0
    /\ Advance
    /\ UNCHANGED <<exitCode, cause, i, nPortIndex, nPortLimit, quit, handle,
                   compState, portEnabled, pending, callback, tunnels,
                   buffer, capturing, events, hpc, handler_lock, flushed,
                   want_quit, disp, delivered,
                   consumed, log, r, format>>

\* The places where main checks a call's result and dies on an error.
Checked ==
    \/ Cur.k \in {"call", "query"} /\ sub = "start"
    \/ Cur.k = "init_component_handle" /\ sub = "start"
    \/ Cur.k = "init_component_handle" /\ sub = "disable" /\ nPortIndex < nPortLimit
    \/ Cur.k = "init_component_handle" /\ sub = "poll"
    \/ Cur.k = "block_until_port_changed" /\ sub = "start"

\* omx_die reporting the error and returning to its caller, which goes on.
RejectReturns ==
    /\ Running /\ pc <= Len(MainProgram)
    /\ Checked
    /\ cause = "none"
    /\ r' = "OMX_ErrorUndefined"
    /\ cause' = "rejected"
    /\ UNCHANGED <<pc, sub, exitCode, i, nPortIndex, nPortLimit, quit, handle,
                   compState, portEnabled, pending, callback, tunnels,
                   buffer, capturing, events, hpc, handler_lock, camera_ready,
                   flushed, want_quit, disp, delivered, consumed, log, format>>

\* The runtime answers a checked call with an error: omx_die, lines 121-141.
Reject ==
    /\ Running /\ pc <= Len(MainProgram)
    /\ Checked
    /\ r' = "OMX_ErrorUndefined"
    /\ ProcessEnds(1, "rejected")

-----------------------------------------------------------------------------
(* The busy loops, lines 256-297.                                          *)

\* The loop of block_until_state_changed left after its first iteration
\* whatever OMX_GetState read.
StateReachedAtOnce(eState, wanted_eState) == TRUE

\* while(i++ == 0 || eState != wanted_eState), after one OMX_GetState.
StateReached(eState, wanted_eState) == eState = wanted_eState

\* while(i++ == 0 || portdef.bEnabled != bEnabled), after one OMX_GetParameter.
PortReached(portdef_bEnabled, bEnabled) == portdef_bEnabled = bEnabled

\* usleep(10000) of a busy loop (usleep(1000) in main's loop): back to the
\* loop's head.
usleep ==
    /\ Running /\ pc <= Len(MainProgram)
    /\ sub = "sleep"
    /\ sub' = CASE Cur.k = "init_component_handle" -> "poll"
                [] Cur.k = "block_until_flushed"   -> "wait"
                [] OTHER -> "start"
    /\ UNCHANGED <<pc, exitCode, cause, i, nPortIndex, nPortLimit, quit, handle,
                   compState, portEnabled, pending, callback, tunnels,
                   buffer, capturing, events, hpc, handler_lock, camera_ready,
                   flushed, want_quit, disp, delivered,
                   consumed, log, r, format>>

block_until_state_changed ==
    /\ AtMain("block_until_state_changed", "start")
    /\ r' = "OMX_ErrorNone"
    /\ IF StateReached(compState[Cur.c], Cur.s)
       THEN /\ log' = Append(log, Note("StateConfirmed", Cur.c, 0,
                                       compState[Cur.c], FALSE))
            /\ Advance
       ELSE /\ sub' = "sleep"
            /\ UNCHANGED <<pc, log>>
    /\ UNCHANGED <<exitCode, cause, i, nPortIndex, nPortLimit, quit, handle,
                   compState, portEnabled, pending, callback, tunnels,
                   buffer, capturing, events, hpc, handler_lock, camera_ready,
                   flushed, want_quit, disp, delivered,
                   consumed, format>>

block_until_port_changed ==
    /\ AtMain("block_until_port_changed", "start")
    /\ r' = "OMX_ErrorNone"
    /\ IF PortReached(portEnabled[Cur.p], Cur.b)
       THEN /\ log' = Append(log, Note("PortConfirmed", Cur.c, Cur.p, "",
                                       portEnabled[Cur.p]))
            /\ Advance
       ELSE /\ sub' = "sleep"
            /\ UNCHANGED <<pc, log>>
    /\ UNCHANGED <<exitCode, cause, i, nPortIndex, nPortLimit, quit, handle,
                   compState, portEnabled, pending, callback, tunnels,
                   buffer, capturing, events, hpc, handler_lock, camera_ready,
                   flushed, want_quit, disp, delivered,
                   consumed, format>>

\* int quit; (line 285) is read by while(!quit) before anything is stored in
\* it: the value is whatever the stack holds, zero or not.
QuitOnEntry == {0, 1}

\* Entry of block_until_flushed and the first evaluation of while(!quit).
block_until_flushed_enter ==
    /\ AtMain("block_until_flushed", "start")
    /\ \E q \in QuitOnEntry :
         /\ quit' = q
         /\ IF q = 0
            THEN sub' = "wait" /\ UNCHANGED <<pc, log>>
            ELSE /\ log' = Append(log, Note("FlushReturned", "", Cur.p, "", FALSE))
                 /\ Advance
    /\ UNCHANGED <<exitCode, cause, i, nPortIndex, nPortLimit, handle,
                   compState, portEnabled, pending, callback, tunnels,
                   buffer, capturing, events, hpc, handler_lock, camera_ready,
                   flushed, want_quit, disp, delivered,
                   consumed, r, format>>

\* vcos_semaphore_wait (lines 287, 362, 369) returns when the count is
\* positive, and takes one from it.
vcos_semaphore_wait(sem) == sem - 1

\* The release left out.
vcos_semaphore_post_missing(sem) == sem

\* vcos_semaphore_post (lines 292, 366, 373) adds one to the count; on the
\* semaphore main has deleted (line 811) it finds nothing to add to.
vcos_semaphore_post(sem) == IF sem < 0 THEN sem ELSE sem + 1

\* vcos_semaphore_wait, line 287.
block_until_flushed_wait ==
    /\ AtMain("block_until_flushed", "wait")
    /\ handler_lock > 0
    /\ handler_lock' = vcos_semaphore_wait(handler_lock)
    /\ sub' = "test"
    /\ UNCHANGED <<pc, exitCode, cause, i, nPortIndex, nPortLimit, quit, handle,
                   compState, portEnabled, pending, callback, tunnels,
                   buffer, capturing, events, hpc, camera_ready, flushed,
                   want_quit, disp, delivered,
                   consumed, log, r, format>>

\* if(ctx->flushed) { ctx->flushed = 0; quit = 1; }, lines 288-291.
block_until_flushed_test ==
    /\ AtMain("block_until_flushed", "test")
    /\ IF flushed # 0
       THEN flushed' = 0 /\ quit' = 1 /\ consumed' = consumed + 1
       ELSE UNCHANGED <<flushed, quit, consumed>>
    /\ sub' = "post"
    /\ UNCHANGED <<pc, exitCode, cause, i, nPortIndex, nPortLimit, handle,
                   compState, portEnabled, pending, callback, tunnels,
                   buffer, capturing, events, hpc, handler_lock, camera_ready,
                   want_quit, disp, delivered, log, r, format>>

\* vcos_semaphore_post, then if(!quit) usleep, lines 292-295.
block_until_flushed_post ==
    /\ AtMain("block_until_flushed", "post")
    /\ handler_lock' = vcos_semaphore_post(handler_lock)
    /\ IF quit # 0
       THEN /\ log' = Append(log, Note("FlushReturned", "", Cur.p, "", FALSE))
            /\ Advance
       ELSE sub' = "sleep" /\ UNCHANGED <<pc, log>>
    /\ UNCHANGED <<exitCode, cause, i, nPortIndex, nPortLimit, quit, handle,
                   compState, portEnabled, pending, callback, tunnels,
                   buffer, capturing, events, hpc, camera_ready, flushed,
                   want_quit, disp, delivered,
                   consumed, r, format>>

\* The wait for camera_ready (lines 564-566) left without reading the flag.
CameraReadyAtOnce(flag) == TRUE

\* while(!ctx.camera_ready), line 564.
CameraReady(flag) == flag # 0

\* while(!ctx.camera_ready) usleep(10000), lines 564-566.
wait_camera_ready ==
    /\ AtMain("wait_camera_ready", "start")
    /\ IF CameraReady(camera_ready)
       THEN Advance
       ELSE sub' = "sleep" /\ UNCHANGED pc
    /\ UNCHANGED <<exitCode, cause, i, nPortIndex, nPortLimit, quit, handle,
                   compState, portEnabled, pending, callback, tunnels,
                   buffer, capturing, events, hpc, handler_lock, camera_ready,
                   flushed, want_quit, disp, delivered,
                   consumed, log, r, format>>

-----------------------------------------------------------------------------
(* init_component_handle, lines 299-340.                                   *)

\* The port loop of line 331 stopping one port short.
PortLoopLimitShort(nStartPortNumber, nPorts) == nStartPortNumber + nPorts - 1

\* nPortIndex < ports.nStartPortNumber + ports.nPorts, line 331.
PortLoopLimit(nStartPortNumber, nPorts) == nStartPortNumber + nPorts

\* OMX_GetHandle, lines 312-314.
init_component_handle_GetHandle ==
    /\ AtMain("init_component_handle", "start")
    /\ r' = "OMX_ErrorNone"
    /\ handle' = [handle EXCEPT ![Cur.c] = "open"]
    /\ log' = Append(log, Note("OMX_GetHandle", Cur.c, 0, "", FALSE))
    /\ i' = 0
    /\ sub' = "probe"
    /\ UNCHANGED <<pc, exitCode, cause, nPortIndex, nPortLimit, quit,
                   compState, portEnabled, pending, callback, tunnels,
                   buffer, capturing, events, hpc, handler_lock, camera_ready,
                   flushed, want_quit, disp, delivered,
                   consumed, format>>

\* for(i = 0; i < 4; i++) if(OMX_GetParameter(types[i]) == OMX_ErrorNone):
\* a category the component has no port of is reported empty or refused,
\* and a refusal is passed over.  After the fourth category the function
\* returns.
init_component_handle_probe ==
    /\ AtMain("init_component_handle", "probe")
    /\ IF i < 4
       THEN \E ok \in BOOLEAN :
              /\ ok \/ PortRange(Cur.c, types[i + 1])[2] = 0
              /\ IF ok
                 THEN /\ r' = "OMX_ErrorNone"
                      /\ nPortIndex' = PortRange(Cur.c, types[i + 1])[1]
                      /\ nPortLimit' = PortLoopLimit(PortRange(Cur.c, types[i + 1])[1],
                                                     PortRange(Cur.c, types[i + 1])[2])
                      /\ sub' = "disable"
                      /\ UNCHANGED i
                 ELSE /\ r' = "OMX_ErrorUndefined"
                      /\ i' = i + 1
                      /\ UNCHANGED <<nPortIndex, nPortLimit, sub>>
              /\ UNCHANGED <<pc, log>>
       ELSE /\ log' = Append(log, Note("init_component_handle", Cur.c, 0, "", FALSE))
            /\ Advance
            /\ UNCHANGED <<i, nPortIndex, nPortLimit, r>>
    /\ UNCHANGED <<exitCode, cause, quit, handle, compState, portEnabled,
                   pending, callback, tunnels, buffer, capturing, events,
                   hpc, handler_lock, camera_ready, flushed, want_quit, disp,
                   delivered,
                   consumed, format>>

\* The port loop's head and OMX_SendCommand(OMX_CommandPortDisable), 331-335.
init_component_handle_disable ==
    /\ AtMain("init_component_handle", "disable")
    /\ IF nPortIndex < nPortLimit
       THEN /\ pending' = [pending EXCEPT ![Cur.c] =
                             Append(@, Cmd("OMX_CommandPortDisable", nPortIndex, ""))]
            /\ log' = Append(log, Note("OMX_CommandPortDisable", Cur.c,
                                       nPortIndex, "", FALSE))
            /\ r' = "OMX_ErrorNone"
            /\ sub' = "poll"
            /\ UNCHANGED i
       ELSE /\ i' = i + 1
            /\ sub' = "probe"
            /\ UNCHANGED <<pending, log, r>>
    /\ UNCHANGED <<pc, exitCode, cause, nPortIndex, nPortLimit, quit, handle,
                   compState, portEnabled, callback, tunnels, buffer,
                   capturing, events, hpc, handler_lock, camera_ready, flushed,
                   want_quit, disp, delivered,
                   consumed, format>>

\* block_until_port_changed(*hComponent, nPortIndex, OMX_FALSE), line 336.
init_component_handle_block ==
    /\ AtMain("init_component_handle", "poll")
    /\ r' = "OMX_ErrorNone"
    /\ IF PortReached(portEnabled[nPortIndex], FALSE)
       THEN /\ log' = Append(log, Note("PortConfirmed", Cur.c, nPortIndex, "",
                                       portEnabled[nPortIndex]))
            /\ nPortIndex' = nPortIndex + 1
            /\ sub' = "disable"
       ELSE /\ sub' = "sleep"
            /\ UNCHANGED <<nPortIndex, log>>
    /\ UNCHANGED <<pc, exitCode, cause, i, nPortLimit, quit, handle, compState,
                   portEnabled, pending, callback, tunnels, buffer,
                   capturing, events, hpc, handler_lock, camera_ready, flushed,
                   want_quit, disp, delivered,
                   consumed, format>>

-----------------------------------------------------------------------------
(* Steady state and exit, lines 701-715 and 810-818.                       *)

\* signal(sig, signal_handler) and signal(sig, SIG_DFL).
SetSignal ==
    /\ AtMain("signal", "start")
    /\ disp' = [disp EXCEPT ![Cur.s] = Cur.op]
    /\ Advance
    /\ UNCHANGED <<exitCode, cause, i, nPortIndex, nPortLimit, quit, handle,
                   compState, portEnabled, pending, callback, tunnels,
                   buffer, capturing, events, hpc, handler_lock, camera_ready,
                   flushed, want_quit, delivered,
                   consumed, log, r, format>>

\* The loop of lines 706-709 left without testing want_quit.
loopUntested ==
    /\ AtMain("loop", "start")
    /\ Advance
    /\ UNCHANGED <<exitCode, cause, i, nPortIndex, nPortLimit, quit, handle,
                   compState, portEnabled, pending, callback, tunnels,
                   buffer, capturing, events, hpc, handler_lock, camera_ready,
                   flushed, want_quit, disp, delivered,
                   consumed, log, r, format>>

\* while(!want_quit) usleep(1000), lines 706-709.
loop ==
    /\ AtMain("loop", "start")
    /\ IF want_quit # 0
       THEN Advance
       ELSE sub' = "sleep" /\ UNCHANGED pc
    /\ UNCHANGED <<exitCode, cause, i, nPortIndex, nPortLimit, quit, handle,
                   compState, portEnabled, pending, callback, tunnels,
                   buffer, capturing, events, hpc, handler_lock, camera_ready,
                   flushed, want_quit, disp, delivered,
                   consumed, log, r, format>>

\* vcos_semaphore_delete, line 811.
vcos_semaphore_delete ==
    /\ AtMain("vcos_semaphore_delete", "start")
    /\ handler_lock' = -1
    /\ Advance
    /\ UNCHANGED <<exitCode, cause, i, nPortIndex, nPortLimit, quit, handle,
                   compState, portEnabled, pending, callback, tunnels,
                   buffer, capturing, events, hpc, camera_ready, flushed,
                   want_quit, disp, delivered,
                   consumed, log, r, format>>

\* return 0, line 818.
return ==
    /\ AtMain("return", "start")
    /\ exitCode' = 0
    /\ UNCHANGED <<pc, sub, cause, i, nPortIndex, nPortLimit, quit, handle,
                   compState, portEnabled, pending, callback, tunnels,
                   buffer, capturing, events, hpc, handler_lock, camera_ready,
                   flushed, want_quit, disp, delivered,
                   consumed, log, r, format>>

\* A signal whose handler is signal_handler, lines 343-345.
signal_handler ==
    /\ Running
    /\ \E sig \in Signals : disp[sig] = "handler"
    /\ want_quit' = 1
    /\ UNCHANGED <<pc, sub, exitCode, cause, i, nPortIndex, nPortLimit, quit,
                   handle, compState, portEnabled, pending, callback,
                   tunnels, buffer, capturing, events, hpc, handler_lock,
                   camera_ready, flushed, disp, delivered,
                   consumed, log, r, format>>

\* A signal whose disposition is SIG_DFL ends the process.
SignalDefault ==
    /\ Running
    /\ \E sig \in Signals : disp[sig] = "default"
    /\ ProcessEnds(2, "signal")
    /\ UNCHANGED r

-----------------------------------------------------------------------------
(* The runtime: it carries out the commands it accepted, one component's   *)
(* queue in order, and reports each by a callback.                         *)

\* The callbacks the runtime may have outstanding at one time.
MaxEvents == 2

CompletionEvent(c, cmd) ==
    Event("OMX_EventCmdComplete", c, cmd.cmd, "", cmd.p, cmd.s)

RuntimeStep(c) ==
    /\ Running
    /\ handle[c] = "open"
    /\ pending[c] # <<>>
    /\ Len(events) < MaxEvents
    /\ LET cmd == Head(pending[c]) IN
         /\ compState' = IF cmd.cmd = "OMX_CommandStateSet"
                         THEN [compState EXCEPT ![c] = cmd.s] ELSE compState
         /\ portEnabled' =
              CASE cmd.cmd = "OMX_CommandPortEnable"  -> [portEnabled EXCEPT ![cmd.p] = TRUE]
                [] cmd.cmd = "OMX_CommandPortDisable" -> [portEnabled EXCEPT ![cmd.p] = FALSE]
                [] OTHER -> portEnabled
         /\ events' = Append(events, CompletionEvent(c, cmd))
    /\ pending' = [pending EXCEPT ![c] = Tail(@)]
    /\ UNCHANGED <<pc, sub, exitCode, cause, i, nPortIndex, nPortLimit, quit,
                   handle, callback, tunnels, buffer, capturing, hpc,
                   handler_lock, camera_ready, flushed, want_quit, disp,
                   delivered,
                   consumed, log, r, format>>

\* The camera device is ready: the runtime makes the callback requested
\* for OMX_IndexParamCameraDeviceNumber.
RuntimeNotify ==
    /\ Running
    /\ handle["camera"] = "open"
    /\ callback = "armed"
    /\ Len(events) < MaxEvents
    /\ events' = Append(events, Event("OMX_EventParamOrConfigChanged", "camera",
                                      "", "OMX_IndexParamCameraDeviceNumber", 0, ""))
    /\ callback' = "fired"
    /\ UNCHANGED <<pc, sub, exitCode, cause, i, nPortIndex, nPortLimit, quit,
                   handle, compState, portEnabled, pending, tunnels, buffer,
                   capturing, hpc, handler_lock, camera_ready, flushed,
                   want_quit, disp, delivered, consumed, log, r, format>>

-----------------------------------------------------------------------------
(* event_handler, lines 348-383, on the runtime's thread.                  *)

Locking == {"OMX_EventCmdComplete", "OMX_EventParamOrConfigChanged"}

\* vcos_semaphore_wait of the two locking cases, lines 362 and 369.
event_handler_wait ==
    /\ Running
    /\ hpc = "idle"
    /\ events # <<>>
    /\ Head(events).e \in Locking
    /\ handler_lock > 0
    /\ handler_lock' = vcos_semaphore_wait(handler_lock)
    /\ hpc' = "locked"
    /\ UNCHANGED <<pc, sub, exitCode, cause, i, nPortIndex, nPortLimit, quit,
                   handle, compState, portEnabled, pending, callback,
                   tunnels, buffer, capturing, events, camera_ready, flushed,
                   want_quit, disp, delivered,
                   consumed, log, r, format>>

\* The test of nData1 left out: every command-complete event sets flushed.
SetsFlushedAnyCommand(ev) == ev.e = "OMX_EventCmdComplete"

\* if(nData1 == OMX_CommandFlush), line 363.
SetsFlushed(ev) == ev.e = "OMX_EventCmdComplete" /\ ev.d1 = "OMX_CommandFlush"

\* The index looked for in nData1, where the runtime puts the port.
SetsCameraReadyByData1(ev) ==
    ev.e = "OMX_EventParamOrConfigChanged"
    /\ ev.d1 = "OMX_IndexParamCameraDeviceNumber"

\* if(nData2 == OMX_IndexParamCameraDeviceNumber), line 370.
SetsCameraReady(ev) ==
    ev.e = "OMX_EventParamOrConfigChanged"
    /\ ev.d2 = "OMX_IndexParamCameraDeviceNumber"

\* The flag update and vcos_semaphore_post, lines 363-366 and 370-373.
event_handler_post ==
    /\ Running
    /\ hpc = "locked"
    /\ flushed' = IF SetsFlushed(Head(events)) THEN 1 ELSE flushed
    /\ delivered' = IF SetsFlushed(Head(events))
                    THEN delivered \cup {Head(events).p} ELSE delivered
    /\ camera_ready' = IF SetsCameraReady(Head(events)) THEN 1 ELSE camera_ready
    /\ handler_lock' = vcos_semaphore_post(handler_lock)
    /\ events' = Tail(events)
    /\ hpc' = "idle"
    /\ UNCHANGED <<pc, sub, exitCode, cause, i, nPortIndex, nPortLimit, quit,
                   handle, compState, portEnabled, pending, callback,
                   tunnels, buffer, capturing, want_quit, disp, log, consumed, r, format>>

\* case OMX_EventError taken as a request to shut down: the handler sets
\* want_quit and returns.
event_handler_error_quits(c) ==
    /\ Running
    /\ handle[c] = "open"
    /\ cause = "none"
    /\ cause' = "error_event"
    /\ want_quit' = 1
    /\ UNCHANGED <<pc, sub, exitCode, i, nPortIndex, nPortLimit, quit, handle,
                   compState, portEnabled, pending, callback, tunnels,
                   buffer, capturing, events, hpc, handler_lock, camera_ready,
                   flushed, disp, delivered, consumed, r, log, format>>

\* The runtime reports an error on a component by a callback of its own:
\* case OMX_EventError: omx_die, lines 375-377.
event_handler_error(c) ==
    /\ Running
    /\ handle[c] = "open"
    /\ die("error_event")

-----------------------------------------------------------------------------

Next ==
    \/ CallStep
    \/ QueryStep
    \/ Memset
    \/ Reject
    \/ usleep
    \/ block_until_state_changed
    \/ block_until_port_changed
    \/ block_until_flushed_enter
    \/ block_until_flushed_wait
    \/ block_until_flushed_test
    \/ block_until_flushed_post
    \/ wait_camera_ready
    \/ init_component_handle_GetHandle
    \/ init_component_handle_probe
    \/ init_component_handle_disable
    \/ init_component_handle_block
    \/ SetSignal
    \/ loop
    \/ vcos_semaphore_delete
    \/ return
    \/ signal_handler
    \/ SignalDefault
    \/ \E c \in Components : RuntimeStep(c)
    \/ RuntimeNotify
    \/ event_handler_wait
    \/ event_handler_post
    \/ \E c \in Components : event_handler_error(c)

Spec == Init /\ [][Next]_vars

-----------------------------------------------------------------------------
(* The program with a runtime that rejects no call and reports no error,   *)
(* and with signals delivered only while signal_handler is installed.      *)
(* Every thread that can run does run: main, the runtime's command         *)
(* processing, its callbacks.  A thread waiting for handler_lock gets it   *)
(* when it is free again and again (main releases it and sleeps 10 ms in   *)
(* every round of block_until_flushed, lines 292-295).                     *)

\* The steps of main that do not wait for handler_lock.
MainStep ==
    \/ CallStep
    \/ QueryStep
    \/ Memset
    \/ usleep
    \/ block_until_state_changed
    \/ block_until_port_changed
    \/ block_until_flushed_enter
    \/ block_until_flushed_test
    \/ block_until_flushed_post
    \/ wait_camera_ready
    \/ init_component_handle_GetHandle
    \/ init_component_handle_probe
    \/ init_component_handle_disable
    \/ init_component_handle_block
    \/ SetSignal
    \/ loop
    \/ vcos_semaphore_delete
    \/ return

LiveNext ==
    \/ MainStep
    \/ block_until_flushed_wait
    \/ signal_handler
    \/ \E c \in Components : RuntimeStep(c)
    \/ RuntimeNotify
    \/ event_handler_wait
    \/ event_handler_post

Fairness ==
    /\ WF_vars(MainStep)
    /\ SF_vars(block_until_flushed_wait)
    /\ WF_vars(signal_handler)
    /\ \A c \in Components : WF_vars(RuntimeStep(c))
    /\ WF_vars(RuntimeNotify)
    /\ SF_vars(event_handler_wait)
    /\ WF_vars(event_handler_post)

LiveSpec == Init /\ [][LiveNext]_vars /\ Fairness

-----------------------------------------------------------------------------
(* The port format code of main, lines 410-467, with the display's size    *)
(* and the ports' default definitions as inputs.  The runtime keeps a port  *)
(* definition as OMX_SetParameter gave it and OMX_GetParameter reads it     *)
(* back unchanged.                                                          *)

VIDEO_FRAMERATE == 25

\* The display sizes graphics_get_display_size may report.
Widths == {0, 1, 2, 1366, 1920}

Heights == {0, 1, 768, 1080}

\* The definitions the two ports may have before main configures them.
DefaultPortdefs == {
    [p \in {70, 71} |->
        [nPortIndex |-> p, nFrameWidth |-> w, nFrameHeight |-> w,
         nStride |-> w, nSliceHeight |-> IF p = 70 THEN 16 ELSE 32,
         xFramerate |-> 0]] : w \in {0, 320} }

FormatInit ==
    /\ MainInit
    /\ screen_width = 0
    /\ screen_height = 0
    /\ camera_portdef = InitStructure(0)
    /\ portdef \in DefaultPortdefs
    /\ fpc = "display"

\* graphics_get_display_size, line 411.
graphics_get_display_size ==
    /\ fpc = "display"
    /\ \E w \in Widths : screen_width' = w
    /\ \E h \in Heights : screen_height' = h
    /\ fpc' = "init70"
    /\ UNCHANGED <<camera_portdef, portdef>>

\* OMX_INIT_STRUCTURE(camera_portdef); camera_portdef.nPortIndex = 70,
\* lines 444-445 and again lines 459-460.
OMX_INIT_STRUCTURE ==
    /\ fpc \in {"init70", "init70again"}
    /\ camera_portdef' = InitStructure(70)
    /\ fpc' = IF fpc = "init70" THEN "get70" ELSE "get70again"
    /\ UNCHANGED <<screen_width, screen_height, portdef>>

\* The fetch left out: the caller's structure stays as OMX_INIT_STRUCTURE
\* left it.
GetParameterNothing(defs, pd) == pd

\* What OMX_GetParameter(OMX_IndexParamPortDefinition) writes to the
\* caller's structure: the definition of the port its nPortIndex names.
GetParameter(defs, pd) == defs[pd.nPortIndex]

\* OMX_GetParameter of port 70, lines 446 and 461.
OMX_GetParameter ==
    /\ fpc \in {"get70", "get70again"}
    /\ camera_portdef' = GetParameter(portdef, camera_portdef)
    /\ fpc' = IF fpc = "get70" THEN "assign" ELSE "index71"
    /\ UNCHANGED <<screen_width, screen_height, portdef>>

\* The preview taking the whole display.
FullSize(screen) == screen

\* screen_width / 2 and screen_height / 2, lines 449-450: a division of
\* OMX_U32 values, which no value leaves the range of.
HalfSize(screen) == screen \div 2

\* The four assignments of lines 449-452.  format.image.nFrameWidth is the
\* same storage as format.video.nFrameWidth, so nStride takes the width
\* assigned at line 449.
ConfigurePreview(pd, w, h) ==
    [pd EXCEPT !.nFrameWidth = HalfSize(w),
               !.nFrameHeight = HalfSize(h),
               !.xFramerate = VIDEO_FRAMERATE * 65536,
               !.nStride = HalfSize(w)]

assign_preview ==
    /\ fpc = "assign"
    /\ camera_portdef' = ConfigurePreview(camera_portdef, screen_width, screen_height)
    /\ fpc' = "set70"
    /\ UNCHANGED <<screen_width, screen_height, portdef>>

\* OMX_SetParameter(OMX_IndexParamPortDefinition), lines 453 and 465.
OMX_SetParameter ==
    /\ fpc \in {"set70", "set71"}
    /\ portdef' = [portdef EXCEPT ![camera_portdef.nPortIndex] = camera_portdef]
    /\ fpc' = IF fpc = "set70" THEN "init70again" ELSE "done"
    /\ UNCHANGED <<screen_width, screen_height, camera_portdef>>

\* camera_portdef.nPortIndex = 71, line 464.
assign_index ==
    /\ fpc = "index71"
    /\ camera_portdef' = [camera_portdef EXCEPT !.nPortIndex = 71]
    /\ fpc' = "set71"
    /\ UNCHANGED <<screen_width, screen_height, portdef>>

\* The variables the port format code leaves alone.
others == <<pc, sub, exitCode, cause, i, nPortIndex, nPortLimit, quit, handle,
            compState, portEnabled, pending, callback, tunnels, buffer,
            capturing, events, hpc, handler_lock, camera_ready, flushed,
            want_quit, disp, delivered, consumed, r, log>>

FormatNext ==
    \/ graphics_get_display_size /\ UNCHANGED others
    \/ OMX_INIT_STRUCTURE /\ UNCHANGED others
    \/ OMX_GetParameter /\ UNCHANGED others
    \/ assign_preview /\ UNCHANGED others
    \/ OMX_SetParameter /\ UNCHANGED others
    \/ assign_index /\ UNCHANGED others

FormatSpec == FormatInit /\ [][FormatNext]_vars

-----------------------------------------------------------------------------
(* event_handler alone, lines 348-383: the callback is followed for every  *)
(* kind of event the runtime may hand it, whatever main does meanwhile.    *)
(* main's position stays where the handles were just initialised.          *)

\* What nData1 and nData2 carry in the events followed here: a command, a
\* configuration index, or something else ("").
HandlerEvents ==
    {Event("OMX_EventCmdComplete", "camera", cmd, "", 70, "") : cmd \in Commands}
    \cup {Event("OMX_EventParamOrConfigChanged", "camera", "", idx, 70, "") :
            idx \in {"OMX_IndexParamCameraDeviceNumber",
                     "OMX_IndexConfigCommonBrightness"}}
    \cup {Event("OMX_EventPortSettingsChanged", "camera", "", "", 70, ""),
          Event("OMX_EventPortSettingsChanged", "camera", "OMX_CommandFlush",
                "OMX_IndexParamCameraDeviceNumber", 70, ""),
          Event("OMX_EventParamOrConfigChanged", "camera", "OMX_CommandFlush",
                "OMX_IndexConfigCommonBrightness", 70, ""),
          Event("OMX_EventCmdComplete", "camera", "OMX_CommandStateSet",
                "OMX_IndexParamCameraDeviceNumber", 70, "")}

\* After memset(&ctx, 0, sizeof(ctx)) (line 396), vcos_semaphore_create
\* (line 397) and the three init_component_handle calls (lines 406-408).
HandlerInit ==
    /\ pc = 1
    /\ sub = "start"
    /\ exitCode = -1
    /\ cause = "none"
    /\ i = 0
    /\ nPortIndex = 0
    /\ nPortLimit = 0
    /\ quit = 0
    /\ handle = [c \in Components |-> "open"]
    /\ compState = [c \in Components |-> "Loaded"]
    /\ portEnabled = NoPorts
    /\ pending = [c \in Components |-> <<>>]
    /\ callback = "none"
    /\ tunnels = {}
    /\ buffer = "none"
    /\ capturing = FALSE
    /\ events = <<>>
    /\ hpc = "idle"
    /\ handler_lock = 1
    /\ camera_ready = 0
    /\ flushed = 0
    /\ want_quit = 0
    /\ disp = [s \in Signals |-> "default"]
    /\ delivered = {}
    /\ consumed = 0
    /\ r = "OMX_ErrorNone"
    /\ log = <<>>
    /\ screen_width = 0
    /\ screen_height = 0
    /\ camera_portdef = InitStructure(0)
    /\ portdef = [p \in {70, 71} |-> InitStructure(p)]
    /\ fpc = "off"

\* The runtime calls event_handler with an event (line 348); one call is
\* served at a time, the others wait their turn.
OMX_EventHandler ==
    /\ Running
    /\ Len(events) < MaxEvents
    /\ \E ev \in HandlerEvents : events' = Append(events, ev)
    /\ UNCHANGED <<pc, sub, exitCode, cause, i, nPortIndex, nPortLimit, quit,
                   handle, compState, portEnabled, pending, callback,
                   tunnels, buffer, capturing, hpc, handler_lock,
                   camera_ready, flushed, want_quit, disp, delivered,
                   consumed, r, log, format>>

\* default: break; and return OMX_ErrorNone, lines 378-382.
event_handler_default ==
    /\ Running
    /\ hpc = "idle"
    /\ events # <<>>
    /\ Head(events).e \notin Locking \cup {"OMX_EventError"}
    /\ events' = Tail(events)
    /\ UNCHANGED <<pc, sub, exitCode, cause, i, nPortIndex, nPortLimit, quit,
                   handle, compState, portEnabled, pending, callback,
                   tunnels, buffer, capturing, hpc, handler_lock,
                   camera_ready, flushed, want_quit, disp, delivered,
                   consumed, r, log, format>>

HandlerNext ==
    \/ OMX_EventHandler
    \/ event_handler_wait
    \/ event_handler_post
    \/ event_handler_default

HandlerSpec == HandlerInit /\ [][HandlerNext]_vars

-----------------------------------------------------------------------------
(* Reading the call log.                                                   *)

LogIdx == 1..Len(log)

IsPrefix(s, t) == Len(s) <= Len(t) /\ \A k \in 1..Len(s) : s[k] = t[k]

\* The entries that are waits left, not calls.
Waits == {"StateConfirmed", "PortConfirmed", "FlushReturned", "init_component_handle"}

\* A call as the claims name it.
Core(e) == [op |-> e.op, c |-> e.c, p |-> e.p, s |-> e.s, b |-> e.b]

Want(op, c, p, s, b) == [op |-> op, c |-> c, p |-> p, s |-> s, b |-> b]

CoreSeq(s) == [k \in 1..Len(s) |-> Core(s[k])]

Indices(op) == {k \in LogIdx : log[k].op = op}

StateSetIdx(c) == {k \in Indices("OMX_CommandStateSet") : log[k].c = c}

IsCaptureSwitch(e, b) == e.s = "OMX_IndexConfigPortCapturing" /\ e.b = b

CaptureIdx(b) == {k \in LogIdx : IsCaptureSwitch(log[k], b)}

\* The state main last saw a component in before log entry k: what its last
\* block_until_state_changed read, Loaded if it has not waited yet.
LastConfirmed(c, k) ==
    LET seen == {j \in Indices("StateConfirmed") : log[j].c = c /\ j < k} IN
    IF seen = {} THEN "Loaded"
    ELSE log[CHOOSE j \in seen : \A j2 \in seen : j2 <= j].s

FivePorts == <<73, 70, 71, 90, 240>>

ThreeComponents == <<"camera", "render", "null_sink">>

-----------------------------------------------------------------------------
LifecyclePath == <<"Loaded", "Idle", "Executing", "Idle", "Loaded">>

\* C1: for each component the state-set commands issued so far are, in
\* order, a prefix of Idle, Executing, Idle, Loaded, and the n-th of them is
\* issued when the runtime reports, and main has last confirmed, the n-th
\* state of the path Loaded, Idle, Executing, Idle.
C1_LifecycleOrder ==
    \A c \in Components : \A k \in StateSetIdx(c) :
        LET n == Cardinality({j \in StateSetIdx(c) : j < k}) + 1 IN
        /\ n <= 4
        /\ log[k].s = LifecyclePath[n + 1]
        /\ log[k].st[c] = LifecyclePath[n]
        /\ LastConfirmed(c, k) = LifecyclePath[n]

C1_Witness ==
    /\ exitCode = 0
    /\ \A c \in Components : Cardinality(StateSetIdx(c)) = 4

-----------------------------------------------------------------------------
FlushReturnedIdx == Indices("FlushReturned")

\* C2: whenever block_until_flushed has returned for the flush of a port,
\* event_handler has recorded the completion event of that flush.
C2_FlushWaitsForItsEvent ==
    \A k \in FlushReturnedIdx : log[k].p \in delivered

\* C3: every return of block_until_flushed has consumed one confirmation
\* (the number of returns equals the number of resets of flushed, but for
\* the moment between the reset and the return), and once all five waits
\* have returned and all five completions were delivered none is left over.
C3_FlushConsumedOnce ==
    /\ (sub # "post" => Cardinality(FlushReturnedIdx) = consumed)
    /\ (Cardinality(FlushReturnedIdx) = 5 /\ delivered = Ports => flushed = 0)

\* C4: every port-enable or port-disable command in the log is followed,
\* as the next entry, by the return of the wait on that port with the
\* commanded flag read.
C4_PortCommandThenWait ==
    \A k \in Indices("OMX_CommandPortEnable") \cup Indices("OMX_CommandPortDisable") :
        k < Len(log) =>
            /\ log[k + 1].op = "PortConfirmed"
            /\ log[k + 1].p = log[k].p
            /\ log[k + 1].b = (log[k].op = "OMX_CommandPortEnable")

-----------------------------------------------------------------------------
ExpectedTeardown == <<
    Want("OMX_SetParameter", "camera", 71, "OMX_IndexConfigPortCapturing", FALSE),
    Want("OMX_CommandFlush", "camera", 73, "", FALSE),
    Want("OMX_CommandFlush", "camera", 70, "", FALSE),
    Want("OMX_CommandFlush", "camera", 71, "", FALSE),
    Want("OMX_CommandFlush", "render", 90, "", FALSE),
    Want("OMX_CommandFlush", "null_sink", 240, "", FALSE),
    Want("OMX_CommandPortDisable", "camera", 73, "", FALSE),
    Want("OMX_CommandPortDisable", "camera", 70, "", FALSE),
    Want("OMX_CommandPortDisable", "camera", 71, "", FALSE),
    Want("OMX_CommandPortDisable", "render", 90, "", FALSE),
    Want("OMX_CommandPortDisable", "null_sink", 240, "", FALSE),
    Want("OMX_FreeBuffer", "camera", 73, "", FALSE),
    Want("OMX_CommandStateSet", "camera", 0, "Idle", FALSE),
    Want("OMX_CommandStateSet", "render", 0, "Idle", FALSE),
    Want("OMX_CommandStateSet", "null_sink", 0, "Idle", FALSE),
    Want("OMX_CommandStateSet", "camera", 0, "Loaded", FALSE),
    Want("OMX_CommandStateSet", "render", 0, "Loaded", FALSE),
    Want("OMX_CommandStateSet", "null_sink", 0, "Loaded", FALSE),
    Want("OMX_FreeHandle", "camera", 0, "", FALSE),
    Want("OMX_FreeHandle", "render", 0, "", FALSE),
    Want("OMX_FreeHandle", "null_sink", 0, "", FALSE) >>

\* The calls made on the components from the capture-off call on.
TeardownCalls ==
    IF CaptureIdx(FALSE) = {} THEN <<>>
    ELSE LET first == CHOOSE k \in CaptureIdx(FALSE) : \A j \in CaptureIdx(FALSE) : k <= j
         IN CoreSeq(SelectSeq(SubSeq(log, first, Len(log)),
                              LAMBDA e : e.op \notin Waits /\ e.c # ""))

\* C5: the calls of teardown are, in order, a prefix of: capture off; flush
\* of 73, 70, 71, 90, 240; port-disable of 73, 70, 71, 90, 240; the buffer
\* free; StateSet Idle for camera, render, null_sink; StateSet Loaded for
\* the three; the three handle frees - and a run that returns 0 has made
\* exactly these calls.
C5_TeardownSequence ==
    /\ IsPrefix(TeardownCalls, ExpectedTeardown)
    /\ (exitCode = 0 => TeardownCalls = ExpectedTeardown)

C5_Witness == exitCode = 0 /\ cause = "none" /\ Len(TeardownCalls) = 21

-----------------------------------------------------------------------------
IdleHandshake == <<
    Want("OMX_CommandStateSet", "camera", 0, "Idle", FALSE),
    Want("StateConfirmed", "camera", 0, "Idle", FALSE),
    Want("OMX_CommandStateSet", "render", 0, "Idle", FALSE),
    Want("StateConfirmed", "render", 0, "Idle", FALSE),
    Want("OMX_CommandStateSet", "null_sink", 0, "Idle", FALSE),
    Want("StateConfirmed", "null_sink", 0, "Idle", FALSE) >>

\* The state-set commands and the returns of block_until_state_changed
\* among the first n entries of the log.
StateTrace(n) ==
    CoreSeq(SelectSeq(SubSeq(log, 1, n),
                      LAMBDA e : e.op \in {"OMX_CommandStateSet", "StateConfirmed"}))

\* C6: when a port-enable command is issued the runtime reports all three
\* components Idle, and the state-set commands and confirmations before it
\* are exactly: camera to Idle, confirmed; render to Idle, confirmed;
\* null_sink to Idle, confirmed.  Before that the commands and confirmations
\* made so far are a prefix of this sequence.
C6_IdleBeforeEnable ==
    /\ \A k \in Indices("OMX_CommandPortEnable") :
          /\ \A c \in Components : log[k].st[c] = "Idle"
          /\ StateTrace(k - 1) = IdleHandshake
    /\ \/ IsPrefix(StateTrace(Len(log)), IdleHandshake)
       \/ IsPrefix(IdleHandshake, StateTrace(Len(log)))

C6_Witness ==
    \E k \in Indices("OMX_CommandPortEnable") : log[k].p = 240

-----------------------------------------------------------------------------
\* The components commanded to Executing before log entry k, in order.
ExecutingOrder(k) ==
    LET s == SelectSeq(SubSeq(log, 1, k - 1),
                       LAMBDA e : e.op = "OMX_CommandStateSet" /\ e.s = "Executing")
    IN [j \in 1..Len(s) |-> s[j].c]

\* C7: when capture is switched on (port 71) camera_ready is set, the
\* runtime reports the five ports enabled and the three components
\* Executing, and Executing was requested for camera, render, null_sink in
\* this order.
C7_CaptureOnlyWhenStarted ==
    \A k \in CaptureIdx(TRUE) :
        /\ log[k].p = 71
        /\ log[k].ready = 1
        /\ \A p \in Ports : log[k].en[p]
        /\ \A c \in Components : log[k].st[c] = "Executing"
        /\ \A c \in Components : LastConfirmed(c, k) = "Executing"
        /\ ExecutingOrder(k) = ThreeComponents

C7_Witness == CaptureIdx(TRUE) # {} /\ capturing

-----------------------------------------------------------------------------
\* The ports of the port-enable commands issued so far, in order.
EnableOrder ==
    LET s == SelectSeq(log, LAMBDA e : e.op = "OMX_CommandPortEnable")
    IN [j \in 1..Len(s) |-> s[j].p]

\* C8: the port-enable commands issued so far name, in order, a prefix of
\* 73, 70, 71, 90, 240, and when the n-th is issued the runtime reports the
\* n-1 ports before it enabled and main has left the wait on each of them.
C8_EnableOrder ==
    /\ IsPrefix(EnableOrder, FivePorts)
    /\ \A k \in Indices("OMX_CommandPortEnable") :
          LET n == Cardinality({j \in Indices("OMX_CommandPortEnable") : j < k}) + 1 IN
          \A m \in 1..(n - 1) :
              /\ log[k].en[FivePorts[m]]
              /\ \E j \in Indices("PortConfirmed") :
                    j < k /\ log[j].p = FivePorts[m] /\ log[j].b

C8_Witness == EnableOrder = FivePorts

-----------------------------------------------------------------------------
AllocIdx == Indices("OMX_AllocateBuffer")

FreeIdx == Indices("OMX_FreeBuffer")

\* C9: the buffer is allocated at most once, on port 73, when the runtime
\* reports all five ports enabled and before any Executing command; a
\* component is commanded to Executing only after the allocation; the
\* buffer is freed at most once, after capture was switched off and after
\* its allocation, before any handle is freed; a run that returns 0 has
\* allocated and freed it exactly once; and while the process lives
\* ctx.camera_ppBuffer_in is allocated exactly between the two calls.
C9_BufferLifecycle ==
    /\ Cardinality(AllocIdx) <= 1
    /\ Cardinality(FreeIdx) <= 1
    /\ \A k \in AllocIdx :
          /\ log[k].c = "camera" /\ log[k].p = 73
          /\ \A p \in Ports : log[k].en[p]
          /\ ExecutingOrder(k) = <<>>
    /\ \A k \in StateSetIdx("camera") \cup StateSetIdx("render") \cup StateSetIdx("null_sink") :
          log[k].s = "Executing" => \E a \in AllocIdx : a < k
    /\ \A k \in FreeIdx :
          /\ log[k].c = "camera" /\ log[k].p = 73
          /\ \E a \in AllocIdx : a < k
          /\ \E t \in CaptureIdx(FALSE) : t < k
          /\ \A h \in Indices("OMX_FreeHandle") : k < h
    /\ \A h \in Indices("OMX_FreeHandle") : \E k \in FreeIdx : k < h
    /\ (exitCode = 0 => Cardinality(AllocIdx) = 1 /\ Cardinality(FreeIdx) = 1)
    /\ exitCode \in {-1, 0} =>
          buffer = (IF FreeIdx # {} THEN "freed"
                    ELSE IF AllocIdx # {} THEN "allocated" ELSE "none")

C9_Witness == exitCode = 0 /\ buffer = "freed"

-----------------------------------------------------------------------------
\* init_component_handle has returned for component c.
InitReturned(c) ==
    \E k \in Indices("init_component_handle") : log[k].c = c

\* The log up to the return of the last init_component_handle so far.
InitLog ==
    IF Indices("init_component_handle") = {} THEN <<>>
    ELSE SubSeq(log, 1, CHOOSE k \in Indices("init_component_handle") :
                            \A j \in Indices("init_component_handle") : j <= k)

-----------------------------------------------------------------------------
\* C11: whenever the last runtime call of main has returned an error the
\* process has ended with exit code 1.
C11_ErrorIsFatal == r # "OMX_ErrorNone" => exitCode = 1

-----------------------------------------------------------------------------
\* The positions in main of the set calls made on the camera while it is
\* configured (lines 431-559).
CameraSetCalls ==
    {n \in (Len(ProgInit) + Len(ProgHandles) + 1)
            .. (Len(ProgInit) + Len(ProgHandles) + Len(ProgCamera)) :
        /\ MainProgram[n].op \in {"OMX_SetConfig", "OMX_SetParameter"}
        /\ MainProgram[n].c = "camera"}

PipelineCalls == {"OMX_CommandStateSet", "OMX_SetupTunnel",
                  "OMX_CommandPortEnable", "OMX_AllocateBuffer"}

\* C12: when the runtime has rejected one of the camera's set calls the
\* process has ended with exit code 1 and the run holds no state-set
\* command, no tunnel setup, no port-enable command and no buffer
\* allocation.
C12_RejectedConfigurationEnds ==
    (cause = "rejected" /\ pc \in CameraSetCalls) =>
        /\ exitCode = 1
        /\ \A k \in LogIdx : log[k].op \notin PipelineCalls

C12_Witness ==
    /\ cause = "rejected"
    /\ pc \in CameraSetCalls
    /\ Cur.s = "OMX_IndexConfigCommonBrightness"

-----------------------------------------------------------------------------
\* The position in main of the last instruction before teardown (line 715).
SteadyEnd ==
    Len(ProgInit) + Len(ProgHandles) + Len(ProgCamera) + Len(ProgCameraReady)
    + Len(ProgRender) + Len(ProgTunnels) + Len(ProgIdle) + Len(ProgEnable)
    + Len(ProgAllocate) + Len(ProgExecuting) + Len(ProgCapture) + Len(ProgSteady)

TeardownOps == {"OMX_CommandFlush", "OMX_FreeBuffer", "OMX_FreeHandle"}

\* C13: when event_handler has received an error event the process has
\* ended with exit code 1, and if main had not left the steady state the
\* run holds no call of teardown: no capture off, no flush, no buffer free,
\* no handle free, and no state-set or port-disable command after capture
\* was switched on.
C13_ErrorEventEnds ==
    cause = "error_event" =>
        /\ exitCode = 1
        /\ pc <= SteadyEnd =>
              /\ TeardownCalls = << >>
              /\ \A k \in LogIdx : log[k].op \notin TeardownOps
              /\ \A k \in LogIdx : \A t \in CaptureIdx(TRUE) :
                    t < k => log[k].op \notin Commands

C13_Witness ==
    /\ cause = "error_event"
    /\ pc <= Len(MainProgram) /\ Cur.k = "loop"
    /\ CaptureIdx(TRUE) # {}

-----------------------------------------------------------------------------
FatalCauses == {"rejected", "error_event"}

\* C14: a process that has exited with code 0 has made every call of
\* teardown, its buffer is freed, the three components are in Loaded,
\* the three handles are freed and OMX_Deinit was called, and nothing
\* fatal happened in the run; a run in which a call was rejected or an
\* error event arrived has exited with code 1, and no other run has.
C14_ExitCodes ==
    /\ exitCode = 0 =>
          /\ cause = "none"
          /\ buffer = "freed"
          /\ \A c \in Components : compState[c] = "Loaded" /\ handle[c] = "freed"
          /\ TeardownCalls = ExpectedTeardown
          /\ Indices("OMX_Deinit") # {}
    /\ cause \in FatalCauses <=> exitCode = 1

C14_Witness == exitCode = 0 /\ Indices("OMX_Deinit") # {}

-----------------------------------------------------------------------------
TunnelIdx == Indices("OMX_SetupTunnel")

\* The two tunnels of the pipeline, as <<output port, input port>>.
PipelineTunnels == {<<70, 240>>, <<71, 90>>}

TunneledPorts == {70, 71, 90, 240}

-----------------------------------------------------------------------------
\* n is the half of m rounded down.
IsHalf(n, m) == 2 * n <= m /\ m < 2 * n + 2

\* C16: once port 70 is configured its width and height are half the
\* display's, rounded down (960 x 540 for 1920 x 1080); and once port 71 is
\* configured its definition is the one read back from port 70 but for the
\* port index, so that it has the width and height of port 70 and a stride
\* equal to the preview width.
C16_FormatPropagation ==
    /\ fpc \in {"init70again", "get70again", "index71", "set71", "done"} =>
          /\ IsHalf(portdef[70].nFrameWidth, screen_width)
          /\ IsHalf(portdef[70].nFrameHeight, screen_height)
          /\ (screen_width = 1920 /\ screen_height = 1080) =>
                (portdef[70].nFrameWidth = 960 /\ portdef[70].nFrameHeight = 540)
    /\ fpc = "done" =>
          /\ portdef[71] = [portdef[70] EXCEPT !.nPortIndex = 71]
          /\ portdef[71].nFrameWidth = portdef[70].nFrameWidth
          /\ portdef[71].nFrameHeight = portdef[70].nFrameHeight
          /\ IsHalf(portdef[71].nStride, screen_width)
          /\ portdef[71].nStride = portdef[71].nFrameWidth

C16_Witness ==
    /\ fpc = "done"
    /\ screen_width = 1920 /\ screen_height = 1080
    /\ portdef[71].nFrameWidth = 960 /\ portdef[71].nStride = 960

-----------------------------------------------------------------------------
(* C17: the two flags and handler_lock.                                    *)

\* The orchestrator is inside the critical section of block_until_flushed
\* (between vcos_semaphore_wait, line 287, and vcos_semaphore_post, line 292).
MainHoldsLock ==
    AtMain("block_until_flushed", "test") \/ AtMain("block_until_flushed", "post")

\* The callback is inside one of its critical sections (lines 362-366 and
\* 369-373).
HandlerHoldsLock == Running /\ hpc = "locked"

\* The orchestrator's next step reads or writes a flag: the test of
\* camera_ready (line 564) or the test and reset of flushed (lines 288-289).
MainAccessesFlag ==
    AtMain("wait_camera_ready", "start") \/ AtMain("block_until_flushed", "test")

\* The callback's next step writes a flag (lines 364 and 371).
HandlerAccessesFlag == Running /\ hpc = "locked"

\* C17: every access to camera_ready or flushed, by the orchestrator or by
\* the event callback, is made by the context that holds handler_lock.
C17_FlagsUnderLock ==
    /\ MainAccessesFlag => MainHoldsLock
    /\ HandlerAccessesFlag => HandlerHoldsLock
    /\ ~(MainHoldsLock /\ HandlerHoldsLock)
    /\ (MainHoldsLock \/ HandlerHoldsLock) => handler_lock # 1

-----------------------------------------------------------------------------
(* C18: the flush-completion event and block_until_flushed.                *)

\* The orchestrator is in block_until_flushed and has not been released:
\* before vcos_semaphore_wait (line 287) or in usleep (line 294).
FlushWaiting ==
    AtMain("block_until_flushed", "wait") \/ AtMain("block_until_flushed", "sleep")

\* The orchestrator has just reset flushed (lines 289-290) and has not yet
\* left the critical section.
FlushJustReset == AtMain("block_until_flushed", "post") /\ quit # 0

\* C18: no flush-completion event is lost.  Every completion event_handler
\* has recorded was either consumed by a reset of flushed or is still held
\* in flushed; a completion recorded while the wait for its command is
\* pending stays in flushed until that wait tests it; and a reset of
\* flushed is made by the wait of a command whose completion was recorded,
\* and releases it.
C18_FlushEventNeverLost ==
    /\ exitCode \in {-1, 0} => Cardinality(delivered) = consumed + flushed
    /\ (FlushWaiting /\ Cur.p \in delivered) => flushed = 1
    /\ FlushJustReset => Cur.p \in delivered

-----------------------------------------------------------------------------
(* C19: what event_handler does to the two flags.                          *)

\* A command-complete event whose nData1 is the flush command.
IsFlushComplete(ev) ==
    ev.e = "OMX_EventCmdComplete" /\ ev.d1 = "OMX_CommandFlush"

\* A parameter-changed event whose nData2 is the camera device number.
IsDeviceNumberChanged(ev) ==
    ev.e = "OMX_EventParamOrConfigChanged"
    /\ ev.d2 = "OMX_IndexParamCameraDeviceNumber"

\* A step in which event_handler returns from the event at the head of the
\* queue.
HandlerReturns == events # <<>> /\ events' = Tail(events)

\* C19: event_handler sets flushed only for a command-complete event of
\* the flush command and camera_ready only for a parameter-changed event
\* of the camera device number; every other event leaves both flags as
\* they were; no step of the handler clears a flag.
C19_HandlerSetsFlags ==
    [][ /\ flushed' >= flushed
        /\ camera_ready' >= camera_ready
        /\ IF HandlerReturns
           THEN /\ flushed' = IF IsFlushComplete(Head(events)) THEN 1 ELSE flushed
                /\ camera_ready' = IF IsDeviceNumberChanged(Head(events))
                                   THEN 1 ELSE camera_ready
           ELSE UNCHANGED <<flushed, camera_ready>> ]_vars

\* Both flags are set and the handler is inside the critical section for a
\* command-complete event of a state change.
C19_Witness ==
    /\ flushed = 1
    /\ camera_ready = 1
    /\ hpc = "locked"
    /\ Head(events).e = "OMX_EventCmdComplete"
    /\ Head(events).d1 = "OMX_CommandStateSet"

-----------------------------------------------------------------------------
(* C20: signals during teardown.                                           *)

\* main has observed want_quit, restored the signal dispositions and is at
\* or past the capture switch-off (line 721).
TeardownBegun == pc > SteadyEnd

\* C20 as stated: once teardown has begun it runs to completion; a shutdown
\* signal delivered during teardown does not cancel the remaining steps,
\* so no run that has begun teardown is ended by a signal.
C20_SignalDoesNotCancel == TeardownBegun => cause # "signal"

\* C20 as amended: once teardown has begun no shutdown signal is handled
\* by the program (the three dispositions are SIG_DFL), so a signal never
\* sets the shutdown flag again and never skips or restarts a step: main
\* stays at its step or moves to the next one.  A signal delivered then
\* ends the process where it stands, with exit by the signal and no
\* further call made.
C20_TeardownUnderSignal ==
    [][ (Running /\ TeardownBegun) =>
          /\ \A sig \in Signals : disp[sig] = "default"
          /\ want_quit' = want_quit \/ ~Running'
          /\ pc' \in {pc, pc + 1}
          /\ cause' = "signal" =>
               (exitCode' = 2 /\ pc' = pc /\ log' = log) ]_vars

\* Teardown was under way (the five flushes were commanded) when a signal
\* ended the process.
C20_Witness ==
    /\ TeardownBegun
    /\ cause = "signal"
    /\ exitCode = 2
    /\ Cardinality(Indices("OMX_CommandFlush")) = 5

-----------------------------------------------------------------------------
(* C21: the steady-state loop and the signal dispositions.                 *)

\* main is in the loop of lines 706-709.
InLoop == AtMain("loop", "start") \/ AtMain("loop", "sleep")

\* main takes a step.
MainMoves == <<pc, sub>>' # <<pc, sub>>

\* C21: in the steady-state loop, a check that finds want_quit set leaves
\* the loop, and a sleep is followed by a check, so the loop is left no
\* later than one sleep after the flag was set; while want_quit is 0 the
\* loop is not left; the loop makes no runtime call; the three signals
\* are handled by signal_handler throughout the loop, go back to their
\* default only after want_quit was observed, and are all at their default
\* when main reaches the first teardown call.
C21_SteadyLoop ==
    [][ /\ (AtMain("loop", "start") /\ want_quit # 0 /\ MainMoves) =>
              pc' = pc + 1
        /\ (AtMain("loop", "sleep") /\ MainMoves) =>
              (pc' = pc /\ sub' = "start")
        /\ (AtMain("loop", "start") /\ want_quit = 0) => pc' = pc
        /\ InLoop => (log' = log /\ \A sig \in Signals : disp[sig] = "handler")
        /\ (Running' /\ \E sig \in Signals :
               disp[sig] = "handler" /\ disp'[sig] = "default") =>
              (want_quit # 0 /\ pc > SteadyEnd - 3)
        /\ (Running' /\ pc' > SteadyEnd) =>
              \A sig \in Signals : disp'[sig] = "default" ]_vars

\* The flag was observed and the handlers were restored: main is about to
\* switch capture off.
C21_Witness ==
    /\ Running
    /\ pc = SteadyEnd + 1
    /\ want_quit = 1
    /\ \A sig \in Signals : disp[sig] = "default"
    /\ Indices("OMX_CommandFlush") = {}

-----------------------------------------------------------------------------
(* C22: the polling waits have no timeout.                                 *)

\* main is in the named wait, at one of the given places.
Polling(k, places) == \E at \in places : AtMain(k, at)

\* main stays at the instruction it is at, makes no call that is logged,
\* and the process does not end unless something other than the passing
\* of time ends it: a rejected call (the poll itself is a checked call in
\* block_until_port_changed, line 276), an error event or a signal.
StaysInLoop ==
    /\ pc' = pc
    /\ log' = log
    /\ Running' \/ cause' \in FatalCauses \cup {"signal"}

\* C22: while the runtime has not reported what a polling wait is waiting
\* for - the component state, the port's enabled flag, the camera-ready
\* event, the flush confirmation - main stays in that wait: it does not
\* go on to the next instruction, issues no command and does not exit.
C22_NoTimeout ==
    [][ /\ (Polling("block_until_state_changed", {"start", "sleep"})
            /\ compState[Cur.c] # Cur.s) => StaysInLoop
        /\ (Polling("block_until_port_changed", {"start", "sleep"})
            /\ portEnabled[Cur.p] # Cur.b) => StaysInLoop
        /\ (Polling("init_component_handle", {"poll", "sleep"})
            /\ portEnabled[nPortIndex]) =>
               (StaysInLoop /\ (Running' => nPortIndex' = nPortIndex))
        /\ (Polling("wait_camera_ready", {"start", "sleep"})
            /\ camera_ready = 0) => StaysInLoop
        /\ (Polling("block_until_flushed", {"start", "wait", "test", "sleep"})
            /\ flushed = 0) => StaysInLoop ]_vars

-----------------------------------------------------------------------------
(* C23: when the port definitions are set.                                 *)

\* The OMX_SetParameter(OMX_IndexParamPortDefinition) calls in the log.
PortDefinitionSets ==
    {k \in Indices("OMX_SetParameter") :
        log[k].s = "OMX_IndexParamPortDefinition"}

\* The commands that move a component to Idle or Executing.
StartCommands ==
    {k \in Indices("OMX_CommandStateSet") : log[k].s \in {"Idle", "Executing"}}

-----------------------------------------------------------------------------
(* C24: the preview port's definition is read, modified and written.       *)

\* The fields main assigns between the fetch and the set, lines 449-452.
Overwritten == {"nFrameWidth", "nFrameHeight", "xFramerate", "nStride"}

\* C24: the definition OMX_SetParameter writes to port 70 (line 453) has
\* the fields of the definition port 70 had, which is the one just fetched
\* (line 446), and agrees with it in every field but frame width, frame
\* height, frame rate and stride.
C24_ReadModifyWrite ==
    [][ (fpc = "set70" /\ fpc' # fpc) =>
          /\ DOMAIN portdef'[70] = DOMAIN portdef[70]
          /\ \A f \in DOMAIN portdef[70] \ Overwritten :
                portdef'[70][f] = portdef[70][f]
          /\ \A f \in DOMAIN portdef[70] \ Overwritten :
                camera_portdef[f] = portdef[70][f] ]_vars

\* Port 70 was written: its size went from the default 320 to half of
\* 1366 x 768 and its slice height is the one it had.
C24_Witness ==
    /\ fpc = "init70again"
    /\ screen_width = 1366 /\ screen_height = 768
    /\ portdef[70].nFrameWidth = 683 /\ portdef[70].nFrameHeight = 384
    /\ portdef[70].nSliceHeight = 16
    /\ portdef[71].nFrameWidth = 320

-----------------------------------------------------------------------------
(* C25: termination.                                                       *)

-----------------------------------------------------------------------------
(* C26: the ports at the end of teardown's port-disable step.              *)

\* The teardown calls made once the ports are meant to be disabled: the
\* buffer free (line 769) and the StateSet Idle commands after it.
AfterDisable ==
    FreeIdx \cup {k \in Indices("OMX_CommandStateSet") :
                    log[k].s = "Idle" /\ \E f \in FreeIdx : f < k}

\* The waits in the log that returned with port p read as disabled after
\* capture was switched off.
ConfirmedDisabled(p) ==
    {j \in Indices("PortConfirmed") :
        log[j].p = p /\ ~log[j].b /\ \E c \in CaptureIdx(FALSE) : c < j}

\* C26: when teardown frees the buffer, and when it commands a component
\* to Idle after that, the runtime reports each of the five ports disabled
\* and main has, before the call, waited for each port and read it as
\* disabled.
C26_PortsDisabledBeforeFree ==
    \A k \in AfterDisable : \A p \in Ports :
        /\ ~log[k].en[p]
        /\ \E j \in ConfirmedDisabled(p) : j < k

-----------------------------------------------------------------------------
(* C27: handler_lock.                                                      *)

\* 1 for a context inside its critical section, 0 otherwise.
Holds(inside) == IF inside THEN 1 ELSE 0

\* C27: while the semaphore exists, at most one of event_handler and
\* block_until_flushed is inside its critical section; the count is 0 or 1
\* and is 1 exactly when neither is inside, so that every acquisition was
\* released; whoever holds the lock can take its next step, which leads to
\* the release; and main holds the lock only at the test of flushed and
\* at the release, never while it sleeps, makes a call or has returned.
C27_LockDiscipline ==
    (exitCode \in {-1, 0} /\ handler_lock # -1) =>
        /\ ~(MainHoldsLock /\ HandlerHoldsLock)
        /\ handler_lock \in {0, 1}
        /\ handler_lock = 1 - Holds(MainHoldsLock) - Holds(HandlerHoldsLock)
        /\ handler_lock = 0 =>
              ENABLED (block_until_flushed_test \/ block_until_flushed_post
                       \/ event_handler_post)
        /\ (handler_lock = 0 /\ hpc # "locked") =>
              /\ exitCode = -1
              /\ Cur.k = "block_until_flushed"
              /\ sub \in {"test", "post"}

\* The callback waits for the lock while block_until_flushed is inside its
\* critical section, having found flushed set.
C27_Witness ==
    /\ AtMain("block_until_flushed", "post")
    /\ quit = 1
    /\ handler_lock = 0
    /\ hpc = "idle"
    /\ events # <<>>
    /\ Head(events).e \in Locking

-----------------------------------------------------------------------------
(* C28: the shutdown flag and the start of teardown.                       *)

\* C28: while the process lives, want_quit is 1 only after capture was
\* switched on, and signal_handler is installed for a signal only then;
\* and the first call of teardown, the capture switch-off, is made with
\* every component reported Executing and every port enabled, after the
\* buffer was allocated and before it is freed, and after capture was
\* switched on.
C28_TeardownFromStarted ==
    /\ (Running /\ want_quit # 0) => CaptureIdx(TRUE) # {}
    /\ (Running /\ \E sig \in Signals : disp[sig] = "handler") =>
          CaptureIdx(TRUE) # {}
    /\ \A k \in CaptureIdx(FALSE) :
          /\ \A c \in Components : log[k].st[c] = "Executing"
          /\ \A p \in Ports : log[k].en[p]
          /\ \E a \in AllocIdx : a < k
          /\ \A f \in FreeIdx : k < f
          /\ \E c \in CaptureIdx(TRUE) : c < k
          /\ \A t \in Indices("OMX_CommandFlush") : k < t

\* The signal has set want_quit and main has made the first call of
\* teardown.
C28_Witness ==
    /\ Running
    /\ want_quit = 1
    /\ CaptureIdx(FALSE) # {}
    /\ Indices("OMX_CommandFlush") = {}

=============================================================================
